---------------------------- MODULE Spec2Model ----------------------------
(* Model of src/main.js (place-and-collect): the entity lifecycle of the   *)
(* coins around a user-placed spawn root.  Lengths are millimetres, times  *)
(* are milliseconds (frame time and performance.now() share one origin),   *)
(* angles are centiradians, orientations are quarter turns about Y.        *)
EXTENDS Integers, FiniteSets, Sequences, TLC

\* ------------------------------------------------------------------ constants
MAX_COINS == 30
SPAWN_INTERVAL_MS == 1400
COLLECT_RADIUS == 500
COIN_LIFETIME == 20000
BURST_SIZE == 10
TWEEN_DUR == 180
FALLBACK_FORWARD == 1500
FALLBACK_DROP == 800
PLANE_LIFT == 20

\* ------------------------------------------------------------------ inputs
\* Math.random() draws of makeCoin/positionCoinAroundRoot: spawn radius,
\* angle (quarter turns), bob phase (centiradians), bob amplitude
CoinDraws ==
  << [r |-> 600,  th |-> 0, phase |-> 0,   bobAmp |-> 60],
     [r |-> 1600, th |-> 1, phase |-> 157, bobAmp |-> 90] >>
\* the pose the hit test reports for the reticle
HitPose == [position |-> <<500, 100, 0>>, quaternion |-> 1]
\* the pose of the XR camera at a pointerdown: position and forward vector
CamPose == [position |-> <<200, 1400, 0>>, fwd |-> <<0, 0, -1>>]
\* the head at a frame, relative to a coin: on the capture sphere, inside it
OnRadius == <<300, 0, 400>>
Inside == <<300, 0, 399>>
FarHead == <<0, 30000, 0>>


\* ------------------------------------------------------------------ helpers
Min(a, b) == IF a < b THEN a ELSE b

\* the next reading of the clock after t
Later(t, instants) ==
  {u \in instants : u > t /\ \A v \in instants : v > t => u <= v}

VAdd(a, b) == <<a[1] + b[1], a[2] + b[2], a[3] + b[3]>>
VScale(a, k) == <<a[1] * k, a[2] * k, a[3] * k>>
Dist2(a, b) ==
  (a[1] - b[1]) * (a[1] - b[1]) + (a[2] - b[2]) * (a[2] - b[2])
    + (a[3] - b[3]) * (a[3] - b[3])

\* Vector3.applyQuaternion for a rotation of q quarter turns about Y
applyQuaternion(v, q) ==
  CASE q % 4 = 0 -> v
    [] q % 4 = 1 -> <<v[3], v[2], 0 - v[1]>>
    [] q % 4 = 2 -> <<0 - v[1], v[2], 0 - v[3]>>
    [] OTHER     -> <<0 - v[3], v[2], v[1]>>

\* cos and sin of th quarter turns
CosQ(th) == CASE th % 4 = 0 -> 1 [] th % 4 = 2 -> -1 [] OTHER -> 0
SinQ(th) == CASE th % 4 = 1 -> 1 [] th % 4 = 3 -> -1 [] OTHER -> 0

\* Math.sin in percent, of an angle in centiradians (Bhaskara's rational
\* approximation on each half period)
HalfSin(a) == (1600 * a * (314 - a)) \div (5 * 314 * 314 - 4 * a * (314 - a))
SinPct(a) ==
  LET m == a % 628
  IN  IF m <= 314 THEN HalfSin(m) ELSE 0 - HalfSin(m - 314)

\* SPAWN_INTERVAL_MS * (0.7 + Math.random() * 0.8), Math.random() = j/10
SpawnThreshold(j) == (SPAWN_INTERVAL_MS * (70 + 8 * j)) \div 100


\* ------------------------------------------------------------------ state
VARIABLES
  now,            \* performance.now(); a frame's time is the clock at the frame
  placed,         \* let placed
  paused,         \* let paused
  coins,          \* const coins = new Set(): the ids of the live coin meshes
  score,          \* let score
  lastSpawnAt,    \* let lastSpawnAt
  spawnRoot,      \* spawnRoot.position / spawnRoot.quaternion
  reticle,        \* reticle.visible / .position / .quaternion
  hitTestSource,  \* hitTestSource is non-null
  xrSession,      \* an XR session is running (frames carry an XRFrame)
  startPending,   \* the async sessionstart handler is suspended at an await
  burstDisabled,  \* $btnBurst.disabled
  scene,          \* the coin meshes that are children of the scene
  fx,             \* tween closures scheduled with requestAnimationFrame
  mesh,           \* per coin object: position x/z and userData
  nextId,         \* identity of the next object makeCoin constructs
  coinMat,        \* _coinMat, the one material every coin mesh refers to:
                  \* emissive (percent of the way to white), opacity
                  \* (percent), transparent
  collected,      \* history: the objects collect() has taken out of the pool
                  \* since the last reset
  counted,        \* history: those of them score += 1 has been run for
  early,          \* history: those of them whose tween ran a step before
                  \* score += 1 had been run for them
  anchorWritten,  \* history: spawnRoot was written since the last reset
  lastFire,       \* history: frame time of the latest timed spawn, -1 if none
  ticked,         \* history: the frames run at this clock reading: "none",
                  \* "off" (none of them simulated) or "sim"
  op              \* history: what the last step did if it was a handler that
                  \* made, expired, collected or discarded coins or moved the
                  \* gate to placed, "idle" after any other step

vars == <<now, placed, paused, coins, score, lastSpawnAt, spawnRoot, reticle,
          hitTestSource, xrSession, startPending, burstDisabled, scene, fx,
          mesh, nextId, coinMat, collected, counted, early,
          anchorWritten, lastFire, ticked, op>>

NoIds == {}
Op(name) ==
  [name |-> name, head |-> FarHead, born |-> NoIds, gone |-> NoIds,
   goneNear |-> NoIds, got |-> NoIds, final |-> NoIds]

Init ==
  /\ now = 0
  /\ placed = FALSE
  /\ paused = FALSE
  /\ coins = {}
  /\ score = 0
  /\ lastSpawnAt = 0
  /\ spawnRoot = [position |-> <<0, 0, 0>>, quaternion |-> 0]
  /\ reticle = [visible |-> FALSE, position |-> <<0, 0, 0>>, quaternion |-> 0]
  /\ hitTestSource = FALSE
  /\ xrSession = FALSE
  /\ startPending = FALSE
  /\ burstDisabled \in BOOLEAN
  /\ scene = {}
  /\ fx = {}
  /\ mesh = << >>
  /\ nextId = 1
  /\ coinMat = [emissive |-> 0, opacity |-> 100, transparent |-> FALSE]
  /\ collected = {}
  /\ counted = {}
  /\ early = {}
  /\ anchorWritten = FALSE
  /\ lastFire = -1
  /\ ticked = "none"
  /\ op = Op("idle")

\* ------------------------------------------------------------------ coins
\* makeCoin followed by positionCoinAroundRoot, with the random draws d
positionCoinAroundRoot(root, d) ==
  LET offset == applyQuaternion(<<CosQ(d.th) * d.r, 0, SinQ(d.th) * d.r>>,
                                root.quaternion)
      base == VAdd(root.position, offset)
  IN  <<base[1], root.position[2] + PLANE_LIFT, base[3]>>

makeCoin(nowMs, root, d) ==
  LET p == positionCoinAroundRoot(root, d)
  IN  [x |-> p[1], z |-> p[3], createdAt |-> nowMs, phase |-> d.phase,
       bobAmp |-> d.bobAmp, scale |-> 100]

\* the position updateCoins gives a coin at frame time nowMs
BobbedPosition(m, root, nowMs) ==
  << m.x,
     root.position[2] + PLANE_LIFT
       + (SinPct((nowMs \div 10) + m.phase) * m.bobAmp) \div 100,
     m.z >>

\* mutants: a coin expires one millisecond early; a coin never expires
IsExpiredInclusive(nowMs, createdAt) == nowMs - createdAt >= COIN_LIFETIME
IsExpiredNever(nowMs, createdAt) == FALSE

\* updateCoins: nowMs - c.userData.createdAt > COIN_LIFETIME
IsExpired(nowMs, createdAt) == nowMs - createdAt > COIN_LIFETIME

\* mutant: a coin exactly on the capture sphere counts as near
InCollectRadiusInclusive(p, head) ==
  Dist2(p, head) <= COLLECT_RADIUS * COLLECT_RADIUS

\* checkProximityCollect: c.position.distanceTo(head) < COLLECT_RADIUS
InCollectRadius(p, head) == Dist2(p, head) < COLLECT_RADIUS * COLLECT_RADIUS

\* mutant: the frame simulates while paused
SimulatesWhilePaused(isPaused, isPlaced) == isPlaced

\* onXRFrame: if (!paused && placed)
Simulates(isPaused, isPlaced) == ~isPaused /\ isPlaced

\* mutant: every tap places the spawn root again
PlacesAlways(isPlaced) == TRUE

\* onPointerDown: if (!placed), the tap places the spawn root
Places(isPlaced) == ~isPlaced

\* mutant: the cap test lets a full pool through
SpawnFiresAtCap(size, nowMs, last, j) ==
  /\ ~(size > MAX_COINS)
  /\ ~(nowMs - last < SpawnThreshold(j))

\* maybeSpawnCoins: neither early return is taken
SpawnFires(size, nowMs, last, j) ==
  /\ ~(size >= MAX_COINS)
  /\ ~(nowMs - last < SpawnThreshold(j))

\* mutants: a burst is not clamped to the cap; a burst ignores the gate
BurstCountUnclamped(isPlaced, size) == IF ~isPlaced THEN 0 ELSE BURST_SIZE
BurstCountUngated(isPlaced, size) == Min(BURST_SIZE, MAX_COINS - size)

\* spawnBurst: if (!placed) return;
\*             const n = Math.min(10, MAX_COINS - coins.size)
BurstCount(isPlaced, size) ==
  IF ~isPlaced THEN 0 ELSE Min(BURST_SIZE, MAX_COINS - size)

\* tween(): t = Math.min(1, (performance.now() - start) / dur), in percent
TweenT(nowMs, start) == Min(100, ((nowMs - start) * 100) \div TWEEN_DUR)

\* mutant: the scale grows to 1.2 times the start scale
TweenScaleTo120(startScale, t) ==
  (startScale * (100 + (20 * t) \div 100)) \div 100

\* tween(): s = startScale * (1 + 1.2 * t), scales in percent
TweenScale(startScale, t) == (startScale * (100 + (120 * t) \div 100)) \div 100

\* tween(): obj.material.opacity = 1 - t
TweenOpacity(t) == 100 - t

\* tween(): lerpColors(startEm, white, t), as percent of the way to white
TweenEmissive(startEm, t) == startEm + ((100 - startEm) * t) \div 100

\* the material after a step of the tween e at time nowMs
TweenMat(e, nowMs) ==
  [emissive |-> TweenEmissive(e.startEm, TweenT(nowMs, e.start)),
   opacity |-> TweenOpacity(TweenT(nowMs, e.start)),
   transparent |-> TRUE]

\* mutant: the first step does not schedule the next one
tweenFirstUnscheduled(st, obj, nowMs) ==
  [st EXCEPT !.early = IF obj \in st.counted THEN @ ELSE @ \cup {obj}]

\* the call tween() inside collect(obj), at elapsed time 0: the scale and
\* the material are written and, as t < 1, requestAnimationFrame(tween)
\* schedules the next step.  (THREE.MathUtils.lerpColors is installed by the
\* last statement of the module, before any handler can run.)
tweenFirst(st, obj, nowMs) ==
  LET e == [obj |-> obj, start |-> nowMs,
            startScale |-> st.mesh[obj].scale,
            startEm |-> st.coinMat.emissive]
      s1 == [st EXCEPT
               !.mesh[obj].scale = TweenScale(e.startScale, 0),
               !.early = IF obj \in st.counted THEN @ ELSE @ \cup {obj}]
  IN  [s1 EXCEPT !.coinMat = TweenMat(e, nowMs), !.fx = @ \cup {e}]

\* mutant: the score is raised before the tween is called
collectCountsFirst(st, obj, nowMs) ==
  IF obj \notin st.coins THEN st
  ELSE tweenFirst([st EXCEPT !.coins = @ \ {obj},
                             !.collected = @ \cup {obj},
                             !.score = @ + 1,
                             !.counted = @ \cup {obj}],
                  obj, nowMs)

\* mutant: a collection counts twice
collectDoubleCounts(st, obj, nowMs) ==
  IF obj \notin st.coins THEN st
  ELSE LET s1 == [st EXCEPT !.coins = @ \ {obj},
                            !.collected = @ \cup {obj}]
           s2 == tweenFirst(s1, obj, nowMs)
       IN  [s2 EXCEPT !.score = @ + 2, !.counted = @ \cup {obj}]

\* mutant: the score is lowered instead of raised
collectMiscounts(st, obj, nowMs) ==
  IF obj \notin st.coins THEN st
  ELSE LET s1 == [st EXCEPT !.coins = @ \ {obj},
                            !.collected = @ \cup {obj}]
           s2 == tweenFirst(s1, obj, nowMs)
       IN  [s2 EXCEPT !.score = @ - 1, !.counted = @ \cup {obj}]

\* collect(obj) on the part of the state it touches: coins.delete(obj),
\* then tween(), then score += 1.
collect(st, obj, nowMs) ==
  IF obj \notin st.coins THEN st
  ELSE LET s1 == [st EXCEPT !.coins = @ \ {obj},
                            !.collected = @ \cup {obj}]
           s2 == tweenFirst(s1, obj, nowMs)
       IN  [s2 EXCEPT !.score = @ + 1, !.counted = @ \cup {obj}]

\* for (const c of toRemove) collect(c), in insertion order
RECURSIVE collectEach(_, _, _)
collectEach(st, toRemove, nowMs) ==
  IF toRemove = {} THEN st
  ELSE LET c == CHOOSE i \in toRemove : \A k \in toRemove : i <= k
       IN  collectEach(collect(st, c, nowMs), toRemove \ {c}, nowMs)

CollectState ==
  [coins |-> coins, fx |-> fx, score |-> score, mesh |-> mesh,
   coinMat |-> coinMat, collected |-> collected, counted |-> counted,
   early |-> early]

\* the objects no variable or closure refers to any more lose their record
Sweep(m, live) == [i \in live |-> m[i]]


\* ------------------------------------------------------------------ actions
\* Every action takes the sets in its inputs are drawn from:
\*   in.instants  readings of the clock
\*   in.hits      hit-test results of a frame while a hit-test source exists
\*   in.jitters   Math.random() of maybeSpawnCoins, in tenths
\*   in.draws     indices into CoinDraws of the coin a timed spawn makes
\*   in.approach  bob phases of the coins the head may come close to
\*   in.offsets   where the head then is, relative to such a coin
\*   in.taps      bob phases of the coins a pointer ray may go through
\*   in.idLimit   number of coin objects that may ever be constructed

\* the clock moves on to its next reading
Advance(in) ==
  /\ \E t \in Later(now, in.instants) : now' = t
  /\ op' = Op("idle")
  /\ ticked' = "none"
  /\ UNCHANGED <<placed, paused, coins, score, lastSpawnAt,
                 spawnRoot, reticle, hitTestSource, xrSession, startPending,
                 burstDisabled, scene, fx, mesh, nextId, collected,
                 anchorWritten, lastFire, coinMat, counted, early>>

\* updateReticle(frame); hits are the poses of the frame's hit-test results
updateReticle(hits) ==
  IF ~hitTestSource \/ ~xrSession \/ Len(hits) = 0
  THEN [reticle EXCEPT !.visible = FALSE]
  ELSE [visible |-> TRUE, position |-> hits[1].position,
        quaternion |-> hits[1].quaternion]

\* where the head can be at a frame: far from every coin, or at one of the
\* offsets from one of the positions
HeadChoices(positions, offsets) ==
  {FarHead} \cup { VAdd(p, o) : p \in positions, o \in offsets }

\* onXRFrame(time, frame) with time = now
onXRFrame(in) ==
  \E hits \in {<< >>} \cup
                (IF xrSession /\ hitTestSource THEN in.hits ELSE {}),
     fire \in {Simulates(paused, placed)
                 /\ SpawnFires(Cardinality(coins), now, lastSpawnAt, j) :
               j \in in.jitters} :
   \E d \in (IF fire THEN in.draws ELSE {1}) :
    LET sim == Simulates(paused, placed)
        born == IF fire THEN {nextId} ELSE {}
        coins1 == coins \cup born
        mesh1 == IF fire
                 THEN [i \in DOMAIN mesh \cup born |->
                         IF i \in born
                         THEN makeCoin(now, spawnRoot, CoinDraws[d])
                         ELSE mesh[i]]
                 ELSE mesh
        toRemove == IF sim
                    THEN {c \in coins1 : IsExpired(now, mesh1[c].createdAt)}
                    ELSE {}
        coins2 == coins1 \ toRemove
        at == [c \in coins1 |-> BobbedPosition(mesh1[c], spawnRoot, now)]
    IN  /\ fire => nextId <= in.idLimit
        /\ \E head \in
               (IF sim
                THEN HeadChoices(
                       {at[c] : c \in {k \in coins1 :
                                         mesh1[k].phase \in in.approach}},
                       in.offsets)
                ELSE {FarHead}) :
             LET near == IF sim
                         THEN {c \in coins2 : InCollectRadius(at[c], head)}
                         ELSE {}
                 st == collectEach([CollectState EXCEPT !.coins = coins2,
                                                        !.mesh = mesh1],
                                   near, now)
             IN  /\ coins' = st.coins
                 /\ fx' = st.fx
                 /\ score' = st.score
                 /\ coinMat' = st.coinMat
                 /\ collected' = st.collected
                 /\ counted' = st.counted
                 /\ early' = st.early
                 /\ mesh' = Sweep(st.mesh, (scene \cup coins1) \ toRemove)
                 /\ op' = IF born \cup toRemove \cup near = {}
                          THEN Op("idle")
                          ELSE [Op("frame") EXCEPT
                                  !.head = head,
                                  !.born = born, !.gone = toRemove,
                                  !.goneNear = {c \in toRemove :
                                     InCollectRadius(at[c], head)},
                                  !.got = coins2 \ st.coins]
        /\ scene' = (scene \cup born) \ toRemove
        /\ reticle' = updateReticle(hits)
        /\ lastSpawnAt' = IF fire THEN now ELSE lastSpawnAt
        /\ lastFire' = IF fire THEN now ELSE lastFire
        /\ nextId' = IF fire THEN nextId + 1 ELSE nextId
        /\ ticked' = IF sim THEN "sim"
                     ELSE IF ticked = "none" THEN "off" ELSE ticked
        /\ UNCHANGED <<now, placed, paused, spawnRoot,
                       hitTestSource, xrSession, startPending, burstDisabled,
                       anchorWritten>>

\* mutant: the fallback anchor is not lowered towards the floor
PlaceAnchorNoDrop(root, ret, cam) ==
  IF ret.visible
  THEN [position |-> ret.position, quaternion |-> ret.quaternion]
  ELSE [root EXCEPT !.position =
          VAdd(cam.position, VScale(cam.fwd, FALLBACK_FORWARD))]

\* onPointerDown while not placed: the anchor is the reticle pose, or the
\* fallback in front of and below the camera cam
PlaceAnchor(root, ret, cam) ==
  IF ret.visible
  THEN [position |-> ret.position, quaternion |-> ret.quaternion]
  ELSE LET p == VAdd(cam.position, VScale(cam.fwd, FALLBACK_FORWARD))
       IN  [root EXCEPT !.position = <<p[1], p[2] - FALLBACK_DROP, p[3]>>]

\* onPointerDown(e) with placed = false
onPointerDownPlace ==
  /\ Places(placed)
  /\ spawnRoot' = PlaceAnchor(spawnRoot, reticle, CamPose)
  /\ placed' = TRUE
  /\ burstDisabled' = FALSE
  /\ anchorWritten' = TRUE
  /\ op' = Op("place")
  /\ UNCHANGED <<now, paused, coins, score, lastSpawnAt,
                 reticle, hitTestSource, xrSession, startPending, scene, fx,
                 mesh, nextId, collected, lastFire, ticked, coinMat, counted,
                 early>>

\* raycaster.intersectObjects(Array.from(coins)): the coins on a ray through
\* the point target; hits[0] is the first of them in the set's order
RayHits(pool, m, target) == {c \in pool : <<m[c].x, m[c].z>> = target}
FirstOf(S) == CHOOSE i \in S : \A k \in S : i <= k

\* onPointerDown(e) with placed = true: tap a coin to collect it
onPointerDownTap(in) ==
  /\ ~Places(placed)
  /\ \E target \in {<<mesh[c].x, mesh[c].z>> :
                      c \in {k \in coins : mesh[k].phase \in in.taps}}
                   \cup {<<0, 0>>} :
       LET hits == RayHits(coins, mesh, target)
           st == IF hits # {} THEN collect(CollectState, FirstOf(hits), now)
                 ELSE CollectState
       IN  /\ coins' = st.coins
           /\ fx' = st.fx
           /\ score' = st.score
           /\ mesh' = st.mesh
           /\ coinMat' = st.coinMat
           /\ collected' = st.collected
           /\ counted' = st.counted
           /\ early' = st.early
           /\ op' = IF hits = {} THEN Op("idle")
                    ELSE [Op("tap") EXCEPT !.got = coins \ st.coins]
  /\ UNCHANGED <<now, placed, paused, lastSpawnAt, spawnRoot,
                 reticle, hitTestSource, xrSession, startPending,
                 burstDisabled, scene, nextId, anchorWritten, lastFire,
                 ticked>>

\* the draws of the i-th coin of a burst
BurstDraw(i) == CoinDraws[(i % Len(CoinDraws)) + 1]

\* spawnBurst(), the click handler of $btnBurst
spawnBurst(in) ==
  /\ ~burstDisabled
  /\ LET n == BurstCount(placed, Cardinality(coins))
         born == {i \in nextId..(nextId + n - 1) : TRUE}
     IN  /\ nextId + n <= in.idLimit + 1
         /\ coins' = coins \cup born
         /\ scene' = scene \cup born
         /\ mesh' = [i \in DOMAIN mesh \cup born |->
                       IF i \in born
                       THEN makeCoin(now, spawnRoot, BurstDraw(i - nextId))
                       ELSE mesh[i]]
         /\ nextId' = nextId + n
         /\ op' = [Op("burst") EXCEPT !.born = born]
  /\ UNCHANGED <<now, placed, paused, score, lastSpawnAt,
                 spawnRoot, reticle, hitTestSource, xrSession, startPending,
                 burstDisabled, fx, collected, anchorWritten, lastFire,
                 ticked, coinMat, counted, early>>

\* mutant: reset leaves the pause flag as it is
resetGameKeepsPause ==
  /\ scene' = scene \ coins
  /\ coins' = {}
  /\ score' = 0
  /\ placed' = FALSE
  /\ burstDisabled' = TRUE
  /\ paused' = paused
  /\ mesh' = Sweep(mesh, scene \ coins)
  /\ nextId' = IF scene \subseteq coins THEN 1 ELSE nextId
  /\ collected' = {}
  /\ counted' = {}
  /\ early' = {}
  /\ anchorWritten' = FALSE
  /\ op' = Op("reset")
  /\ UNCHANGED <<now, lastSpawnAt, spawnRoot, reticle,
                 hitTestSource, xrSession, startPending, fx, lastFire, ticked,
                 coinMat>>

\* resetGame(), the click handler of $btnReset.  When the scene holds no
\* object besides the pool's, every coin object is garbage afterwards, and
\* the numbering starts again.
resetGame ==
  /\ scene' = scene \ coins
  /\ coins' = {}
  /\ score' = 0
  /\ placed' = FALSE
  /\ burstDisabled' = TRUE
  /\ paused' = FALSE
  /\ mesh' = Sweep(mesh, scene \ coins)
  /\ nextId' = IF scene \subseteq coins THEN 1 ELSE nextId
  /\ collected' = {}
  /\ counted' = {}
  /\ early' = {}
  /\ anchorWritten' = FALSE
  /\ op' = Op("reset")
  /\ UNCHANGED <<now, lastSpawnAt, spawnRoot, reticle,
                 hitTestSource, xrSession, startPending, fx, lastFire, ticked,
                 coinMat>>

\* the simulation state resetGame reads or writes, and what it leaves of it
SimState ==
  [coins |-> coins, scene |-> scene, score |-> score, placed |-> placed,
   paused |-> paused, burstDisabled |-> burstDisabled,
   spawnRoot |-> spawnRoot, lastSpawnAt |-> lastSpawnAt]

\* mutant: reset flips the pause flag, as the pause button does
ResetOfTogglesPause(st) ==
  [st EXCEPT !.scene = st.scene \ st.coins, !.coins = {}, !.score = 0,
             !.placed = FALSE, !.burstDisabled = TRUE,
             !.paused = ~st.paused]

ResetOf(st) ==
  [st EXCEPT !.scene = st.scene \ st.coins, !.coins = {}, !.score = 0,
             !.placed = FALSE, !.burstDisabled = TRUE, !.paused = FALSE]

\* the click handler of $btnPause
togglePause ==
  /\ paused' = ~paused
  /\ op' = Op("idle")
  /\ UNCHANGED <<now, placed, coins, score, lastSpawnAt,
                 spawnRoot, reticle, hitTestSource, xrSession, startPending,
                 burstDisabled, scene, fx, mesh, nextId, collected,
                 anchorWritten, lastFire, ticked, coinMat, counted, early>>

\* 'sessionstart' is dispatched: the async handler runs up to its first await
sessionStart ==
  /\ ~xrSession
  /\ xrSession' = TRUE
  /\ startPending' = TRUE
  /\ op' = Op("idle")
  /\ UNCHANGED <<now, placed, paused, coins, score,
                 lastSpawnAt, spawnRoot, reticle, hitTestSource,
                 burstDisabled, scene, fx, mesh, nextId, collected,
                 anchorWritten, lastFire, ticked, coinMat, counted, early>>

\* the awaited requests of the sessionstart handler have resolved
sessionStartResume ==
  /\ startPending
  /\ xrSession
  /\ startPending' = FALSE
  /\ hitTestSource' = TRUE
  /\ lastSpawnAt' = 0
  /\ op' = Op("idle")
  /\ UNCHANGED <<now, placed, paused, coins, score, spawnRoot,
                 reticle, xrSession, burstDisabled, scene, fx, mesh, nextId,
                 collected, anchorWritten, lastFire, ticked, coinMat, counted,
                 early>>

\* 'sessionend' is dispatched; the requests of a handler still suspended reject
sessionEnd ==
  /\ xrSession
  /\ xrSession' = FALSE
  /\ startPending' = FALSE
  /\ hitTestSource' = FALSE
  /\ placed' = FALSE
  /\ burstDisabled' = TRUE
  /\ op' = Op("idle")
  /\ UNCHANGED <<now, paused, coins, score, lastSpawnAt,
                 spawnRoot, reticle, scene, fx, mesh, nextId, collected,
                 anchorWritten, lastFire, ticked, coinMat, counted, early>>

\* mutant: a tween never reaches its last step
TweenDoneNever(nowMs, start) == FALSE

\* tween(): Math.min(1, (performance.now() - start) / dur) has reached 1
TweenDone(nowMs, start) == ~(nowMs - start < TWEEN_DUR)

\* the tween scheduled last: its callback is the last one of a frame
LastTween(f) == CHOOSE e \in f : \A k \in f : k.start <= e.start

\* an animation frame runs every scheduled tween callback, in the order they
\* were scheduled: each writes its object's scale and the shared material,
\* and either schedules itself again or removes its object from the scene
tweenFrame ==
  /\ fx # {}
  /\ LET done == {e \in fx : TweenDone(now, e.start)}
         objs == {e.obj : e \in done}
         scaled == [i \in DOMAIN mesh |->
                      IF \E e \in fx : e.obj = i
                      THEN LET e == CHOOSE k \in fx : k.obj = i
                           IN  [mesh[i] EXCEPT !.scale =
                                  TweenScale(e.startScale,
                                             TweenT(now, e.start))]
                      ELSE mesh[i]]
     IN  /\ fx' = fx \ done
         /\ scene' = scene \ objs
         /\ coinMat' = TweenMat(LastTween(fx), now)
         /\ mesh' = Sweep(scaled, (scene \cup coins) \ objs)
         /\ op' = IF objs = {} THEN Op("idle")
                  ELSE [Op("tween") EXCEPT
                          !.gone = objs,
                          !.final = {scaled[i].scale : i \in objs}]
  /\ UNCHANGED <<now, placed, paused, coins, score,
                 lastSpawnAt, spawnRoot, reticle, hitTestSource, xrSession,
                 startPending, burstDisabled, nextId, collected, counted,
                 early, anchorWritten, lastFire, ticked>>

\* ------------------------------------------------------------------ bounds
\* coin objects constructed in a run of each specification
MaxIdsGate == 10
MaxIdsTime == 12
MaxIdsPool == 11
MaxIdsCap == 35
MaxIdsFx == 10
MaxIdsFair == 10

\* --------------------------------------------------------- specifications
\* The placement gate: one clock reading, a hit test that finds a surface,
\* one burst of coins to tap and walk into.
InGate ==
  [instants |-> {0}, hits |-> {<<HitPose>>}, jitters |-> {0}, draws |-> {1},
   approach |-> {0}, offsets |-> {Inside}, taps |-> {157},
   idLimit |-> MaxIdsGate]

NextGate ==
  \/ onXRFrame(InGate)
  \/ onPointerDownPlace
  \/ onPointerDownTap(InGate)
  \/ spawnBurst(InGate)
  \/ resetGame
  \/ togglePause
  \/ sessionStart
  \/ sessionStartResume
  \/ sessionEnd

SpecGate == Init /\ [][NextGate]_vars

\* Spawn timing and lifetime: clock readings around the spawn interval and
\* the coin lifetime, every jitter draw, no collection.
InTime ==
  [instants |-> {0, 979, 980, 20980}, hits |-> {}, jitters |-> {0, 5, 9},
   draws |-> {1}, approach |-> {}, offsets |-> {}, taps |-> {},
   idLimit |-> MaxIdsTime]

NextTime ==
  \/ Advance(InTime)
  \/ onXRFrame(InTime)
  \/ onPointerDownPlace
  \/ spawnBurst(InTime)
  \/ resetGame
  \/ togglePause
  \/ sessionStart
  \/ sessionStartResume
  \/ sessionEnd

SpecTime == Init /\ [][NextTime]_vars

\* Collection and expiry: the head on and inside the capture sphere of the
\* coins of the first draw, taps on the coins of the second, the tweens.
InPool ==
  [instants |-> {0, 1, 20001}, hits |-> {}, jitters |-> {0}, draws |-> {1},
   approach |-> {0}, offsets |-> {OnRadius, Inside}, taps |-> {157},
   idLimit |-> MaxIdsPool]

NextPool ==
  \/ Advance(InPool)
  \/ onXRFrame(InPool)
  \/ onPointerDownPlace
  \/ onPointerDownTap(InPool)
  \/ spawnBurst(InPool)
  \/ resetGame
  \/ togglePause
  \/ sessionStart
  \/ sessionEnd
  \/ tweenFrame

SpecPool == Init /\ [][NextPool]_vars

\* The population cap: enough coin objects for bursts to fill the pool.
InCap ==
  [instants |-> {0, 980}, hits |-> {}, jitters |-> {0, 9}, draws |-> {1},
   approach |-> {0}, offsets |-> {Inside}, taps |-> {},
   idLimit |-> MaxIdsCap]

NextCap ==
  \/ Advance(InCap)
  \/ onXRFrame(InCap)
  \/ onPointerDownPlace
  \/ spawnBurst(InCap)
  \/ resetGame
  \/ togglePause
  \/ tweenFrame

SpecCap == Init /\ [][NextCap]_vars

\* tweens: readings of the clock before, half way through and at the end
\* of a tween started at 0 or at 90
InFx ==
  [instants |-> {0, 90, 180}, hits |-> {}, jitters |-> {0}, draws |-> {1},
   approach |-> {0}, offsets |-> {Inside}, taps |-> {157},
   idLimit |-> MaxIdsFx]

NextFx ==
  \/ Advance(InFx)
  \/ onXRFrame(InFx)
  \/ onPointerDownPlace
  \/ onPointerDownTap(InFx)
  \/ spawnBurst(InFx)
  \/ resetGame
  \/ togglePause
  \/ tweenFrame

SpecFx == Init /\ [][NextFx]_vars

\* tweens under fair scheduling: the browser keeps running the animation
\* frame callbacks that are scheduled, and the clock keeps advancing
InFair ==
  [instants |-> {0, 180}, hits |-> {}, jitters |-> {0}, draws |-> {1},
   approach |-> {0}, offsets |-> {Inside}, taps |-> {},
   idLimit |-> MaxIdsFair]

NextFair ==
  \/ Advance(InFair)
  \/ onXRFrame(InFair)
  \/ onPointerDownPlace
  \/ spawnBurst(InFair)
  \/ resetGame
  \/ togglePause
  \/ sessionStart
  \/ sessionEnd
  \/ tweenFrame

SpecFair ==
  /\ Init /\ [][NextFair]_vars
  /\ WF_vars(tweenFrame)
  /\ WF_vars(Advance(InFair))

\* ------------------------------------------------------------------ claims
FxObjs(f) == {e.obj : e \in f}
AgeOf(c) == now - mesh[c].createdAt

\* C1: in every reachable state the number of coins in the pool is between
\* 0 and the cap of 30.
C1_PopulationCap == Cardinality(coins) >= 0 /\ Cardinality(coins) <= 30

\* a burst was clicked on a full pool
C1_Witness ==
  Cardinality(coins) = 30 /\ op.name = "burst" /\ op.born = {}

\* C2: collect() on an object that is not in the pool changes nothing, no
\* object collect() has taken is in the pool, and the score is the number
\* of distinct objects collected since the last reset.
C2_CollectOnce ==
  /\ \A obj \in (1..(nextId - 1)) \ coins :
       collect(CollectState, obj, now) = CollectState
  /\ collected \cap coins = {}
  /\ score = Cardinality(collected)

\* a tap on a coin collected it after proximity had collected others
C2_Witness == score >= 6 /\ op.name = "tap" /\ op.got # {} /\ fx # {}

\* C3 as claimed: on a frame run while placed and not paused, every coin of
\* the pool whose updated position is less than 500 mm from the head leaves
\* the pool in that frame and is collected in it, each collected coin
\* raising the score by one.
C3_Original ==
  [][ (op'.name = "frame" /\ placed /\ ~paused) =>
        LET near == {c \in coins :
                       Dist2(BobbedPosition(mesh[c], spawnRoot, now),
                             op'.head) < 500 * 500}
        IN  /\ near \cap coins' = {}
            /\ near \subseteq op'.got
            /\ score' = score + Cardinality(op'.got) ]_vars

\* C3: on a frame run while placed and not paused, every coin of the pool
\* that is not older than the lifetime and whose updated position is less
\* than 500 mm from the head is collected in that frame; the coins the
\* frame collects have left the pool, are all less than 500 mm from the
\* head, and raise the score by one each.
C3_ProximityExact ==
  [][ (op'.name = "frame" /\ placed /\ ~paused) =>
        LET near == {c \in coins :
                       /\ AgeOf(c) <= 20000
                       /\ Dist2(BobbedPosition(mesh[c], spawnRoot, now),
                                op'.head) < 500 * 500}
        IN  /\ near \subseteq op'.got
            /\ op'.got \cap coins' = {}
            /\ \A c \in op'.got :
                 Dist2(BobbedPosition(mesh'[c], spawnRoot, now),
                       op'.head) < 500 * 500
            /\ score' = score + Cardinality(op'.got) ]_vars

\* a frame collected several coins and left others in the pool
C3_Witness ==
  /\ op.name = "frame" /\ Cardinality(op.got) >= 2 /\ coins # {}
  /\ score >= Cardinality(op.got)

\* C4 as claimed: once a frame has run at a clock reading, no coin older
\* than the lifetime is in the pool, paused or not, placed or not.
C4_Original ==
  ticked # "none" => \A c \in coins : AgeOf(c) <= 20000

\* C4: a coin leaves the pool only when it is collected, when reset discards
\* it, or when a frame run while placed and not paused finds it older than
\* the lifetime; after such a frame no coin older than the lifetime is in
\* the pool.
C4_ExpiryExact ==
  /\ [](ticked = "sim" => \A c \in coins : AgeOf(c) <= 20000)
  /\ [][ \A c \in coins \ coins' :
           \/ c \in collected'
           \/ op'.name = "reset"
           \/ (placed /\ ~paused /\ AgeOf(c) > 20000) ]_vars

\* a frame expired a coin and kept one that is exactly the lifetime old
C4_Witness ==
  /\ op.name = "frame" /\ op.gone # {}
  /\ \E c \in coins : AgeOf(c) = 20000

\* C5: a coin older than the lifetime at a frame run while placed and not
\* paused leaves the pool and the scene without being collected, without a
\* tween and without a change of the score, also when it is within the
\* capture radius.
C5_ExpirySilent ==
  [][ (op'.name = "frame" /\ placed /\ ~paused) =>
        /\ \A c \in coins :
             AgeOf(c) > 20000 =>
               /\ c \notin coins' /\ c \notin scene'
               /\ c \notin collected' /\ c \notin FxObjs(fx')
        /\ score' - score = Cardinality(FxObjs(fx') \ FxObjs(fx)) ]_vars

\* a frame expired a coin that was within the capture radius
C5_Witness == op.name = "frame" /\ op.goneNear # {}

\* C6 as claimed: two successive timed spawns are at least 980 ms apart.
C6_SpawnGap ==
  [][ (op'.name = "frame" /\ op'.born # {} /\ lastFire # -1) =>
        now' - lastFire >= 980 ]_vars

\* C7: no step taken while the gate is unplaced, a frame and a burst click
\* included, changes the pool, except that reset empties it.
C7_NoSpawnUnplaced ==
  [][ (~placed /\ op'.name # "reset") => coins' = coins ]_vars

\* a burst was clicked while the gate was unplaced
C7_Witness == op.name = "burst" /\ ~placed /\ coins = {} /\ nextId = 1

\* C8: a burst in the placed state adds exactly min(10, 30 - size) coins,
\* whatever the time since the last spawn, and the pool stays within 30.
C8_BurstExact ==
  [][ (op'.name = "burst" /\ placed) =>
        /\ coins \subseteq coins'
        /\ Cardinality(coins' \ coins) =
             (IF Cardinality(coins) <= 20 THEN 10
              ELSE 30 - Cardinality(coins))
        /\ Cardinality(coins') <= 30 ]_vars

\* a burst on 25 coins added 5
C8_Witness ==
  op.name = "burst" /\ Cardinality(op.born) = 5 /\ Cardinality(coins) = 30

\* C9 as claimed: the anchor is written at most once between two resets.
C9_Original == [][ op'.name = "place" => ~anchorWritten ]_vars

\* C9: while the gate is placed no step changes the anchor, and the gate
\* leaves placed only by reset or by the end of the XR session; the anchor
\* is only written by the step that moves the gate to placed.
C9_AnchorStable ==
  [][ /\ placed => spawnRoot' = spawnRoot
      /\ (placed /\ ~placed') =>
           (op'.name = "reset" \/ (xrSession /\ ~xrSession'))
      /\ spawnRoot' # spawnRoot => (~placed /\ placed') ]_vars

\* a tap collected a coin around an anchor placed on the detected surface
C9_Witness ==
  /\ op.name = "tap" /\ op.got # {} /\ placed
  /\ spawnRoot.position = <<500, 100, 0>>

\* C10: a pointerdown in the unplaced state places the gate in that event:
\* at the reticle pose when the reticle is visible, else 1500 mm in front of
\* the camera and 800 mm below it; it collects nothing.
C10_PlaceNow ==
  [][ (~placed /\ op'.name \in {"place", "tap"}) =>
        /\ placed' /\ op'.name = "place"
        /\ coins' = coins /\ score' = score
        /\ reticle.visible =>
             /\ spawnRoot'.position = reticle.position
             /\ spawnRoot'.quaternion = reticle.quaternion
        /\ ~reticle.visible =>
             spawnRoot'.position = <<200, 1400 - 800, 0 - 1500>> ]_vars

\* the fallback anchor was used
C10_Witness ==
  /\ op.name = "place" /\ placed /\ ~reticle.visible
  /\ spawnRoot.position = <<200, 600, -1500>>

\* C11: a reset leaves the pool empty, the score 0, the gate unplaced and the
\* pause flag cleared; it schedules no tween, and none of the coins it
\* discards is collected, in a tween or left in the scene.
C11_ResetClears ==
  [][ op'.name = "reset" =>
        /\ coins' = {} /\ score' = 0 /\ ~placed' /\ ~paused'
        /\ fx' = fx
        /\ collected' = {}
        /\ coins \cap (FxObjs(fx') \cup scene') = {} ]_vars

\* a reset was clicked while a tween was in flight and the scene held coins
C11_Witness ==
  /\ op.name = "reset" /\ fx # {} /\ scene = FxObjs(fx)
  /\ nextId > Cardinality(fx) + 1

\* C12: resetting twice gives the same pool, scene, score, gate, pause flag,
\* anchor and lastSpawnAt as resetting once: every reset step takes the state
\* to ResetOf of it, and ResetOf of that is the same again.
C12_ResetIdempotent ==
  /\ [](ResetOf(ResetOf(SimState)) = ResetOf(SimState))
  /\ [][ op'.name = "reset" => SimState' = ResetOf(SimState) ]_vars

\* a reset after a placement and a timed spawn: a second reset changes nothing
C12_Witness ==
  /\ op.name = "reset" /\ lastSpawnAt > 0
  /\ spawnRoot.position # <<0, 0, 0>>
  /\ ResetOf(SimState) = SimState

\* C13 as claimed: a reset takes the anchor back to the pose it had before
\* any placement, and the first placement after a reset gives the anchor
\* that placing from that pose gives, whatever was placed before.
C13_ResetClearsAnchor ==
  [][ /\ op'.name = "reset" =>
           spawnRoot' = [position |-> <<0, 0, 0>>, quaternion |-> 0]
      /\ (op'.name = "place" /\ ~anchorWritten) =>
           spawnRoot' = PlaceAnchor([position |-> <<0, 0, 0>>,
                                     quaternion |-> 0], reticle, CamPose)
    ]_vars

\* C14: a frame run while paused spawns, expires and collects nothing (pool,
\* scene, score, lastSpawnAt and the tweens are as before it), while a tap
\* can still place the spawn root and a scheduled tween can still run.
C14_PauseSuspends ==
  /\ [](paused => /\ ~placed => ENABLED onPointerDownPlace
                  /\ fx # {} => ENABLED tweenFrame)
  /\ [][ (paused /\ now' = now /\ (ticked' # ticked \/ reticle' # reticle))
           => UNCHANGED <<coins, scene, mesh, score, lastSpawnAt, fx,
                          collected, nextId>> ]_vars

\* paused: a frame has left an expired coin in the pool, a tween has finished
C14_Witness ==
  /\ paused /\ placed /\ ticked = "off"
  /\ op.name = "tween" /\ op.gone # {}
  /\ \E c \in coins : AgeOf(c) > 20000

\* C15 as claimed: the steps of a tween write only to their own object: a
\* frame of tween callbacks leaves the pool as it is, and no step changes the
\* record, the scale or the material of a coin that is in the pool before
\* and after it.
C15_EffectIsolated ==
  [][ /\ op'.name = "tween" => coins' = coins
      /\ \A c \in coins \cap coins' :
           mesh'[c] = mesh[c] /\ coinMat' = coinMat ]_vars

\* C16: under fair scheduling of the animation callbacks and an
\* advancing clock, every object that has left the pool and is still in the
\* scene (a collected coin) is eventually out of the scene, whatever pause
\* toggles, resets and session ends happen meanwhile.  (Stated for the
\* collections before the last clock reading of the model.)
C16_EffectCompletes ==
  \A c \in 1..MaxIdsFair :
    (c \in scene /\ c \notin coins /\ now < 180) ~> (c \notin scene)

\* a tween that was in flight across a reset has removed its coin
C16_Witness ==
  /\ op.name = "tween" /\ op.gone # {} /\ op.gone \cap scene = {}
  /\ collected = {} /\ score = 0 /\ ~placed

\* C17: no step other than a reset lowers the score, and a reset sets it
\* to 0.
C17_ScoreMonotone ==
  [][ /\ op'.name # "reset" => score' >= score
      /\ op'.name = "reset" => score' = 0 ]_vars

\* six coins have been collected, the last one by a tap
C17_Witness == score >= 6 /\ op.name = "tap" /\ op.got # {}

\* C18 as claimed: no step of a coin's tween has run before the score was
\* raised for that coin.
C18_Original == early = {}

\* C18: the first step of a collected coin's tween runs inside collect()
\* before the score is raised for it; the score is raised in the same call,
\* so that between handlers every collected coin is counted, and every later
\* step of its tween runs after that and leaves the score alone.
C18_FirstStepThenScore ==
  /\ [](early = collected /\ counted = collected)
  /\ [](FxObjs(fx) \cap collected \subseteq counted)
  /\ [][ (fx' # fx /\ FxObjs(fx') \subseteq FxObjs(fx)) =>
           score' = score ]_vars

\* a frame has collected coins whose tweens are now in flight
C18_Witness ==
  /\ op.name = "frame" /\ op.got # {} /\ op.got \subseteq early
  /\ op.got \subseteq FxObjs(fx) /\ score >= Cardinality(op.got)

\* C19 as claimed: over a tween the scale of its coin never decreases, the
\* coin leaves the scene with 1.2 times the scale captured at collection,
\* and the opacity is 0 when the last tween in flight completes.
C19_Original ==
  [][ tweenFrame =>
        /\ \A e \in fx' : mesh'[e.obj].scale >= mesh[e.obj].scale
        /\ op'.final = {(e.startScale * 120) \div 100 : e \in fx \ fx'}
        /\ fx' = {} => coinMat'.opacity = 0 ]_vars

\* C19: the first step of a tween, inside collect(), leaves the scale at
\* the captured one and writes opacity 1; every later step sets the scale
\* to captured * (1 + 1.2 * t) for the elapsed fraction t, which never
\* decreases, and writes opacity 1 - t to the material; at completion
\* (t = 1) the coin leaves the scene with 2.2 times the captured scale and
\* the opacity written is 0.
C19_ScaleAndOpacity ==
  [][ /\ \A e \in fx' \ fx :
           /\ e.startScale = 100
           /\ mesh'[e.obj].scale = e.startScale
           /\ coinMat'.opacity = 100
      /\ tweenFrame =>
           /\ \A e \in fx' :
                LET t == Min(100, ((now - e.start) * 100) \div 180)
                IN  /\ mesh'[e.obj].scale =
                         (e.startScale * (100 + (120 * t) \div 100)) \div 100
                    /\ mesh'[e.obj].scale >= mesh[e.obj].scale
                    /\ mesh'[e.obj].scale < (e.startScale * 220) \div 100
           /\ op'.final = {(e.startScale * 220) \div 100 : e \in fx \ fx'}
           /\ coinMat'.opacity =
                100 - Min(100, ((now - LastTween(fx).start) * 100) \div 180)
           /\ fx' = {} => coinMat'.opacity = 0 ]_vars

\* an animation frame took one coin out of the scene at 2.2 times its scale
\* while the tween of a coin collected later is half way
C19_Witness ==
  /\ op.name = "tween" /\ op.final = {220}
  /\ \E e \in fx : mesh[e.obj].scale = 160
  /\ coinMat.opacity = 50

\* C20: every coin of the pool is in the scene, and every coin object in
\* the scene is in the pool or has a tween in flight; the only objects a
\* step adds to the pool or to the scene are the ones makeCoin constructs
\* in that step, which no pool, scene or tween refers to before it, so an
\* object that has left both never comes back.
C20_SceneMatchesPool ==
  /\ [](coins \subseteq scene /\ scene \ coins \subseteq FxObjs(fx))
  /\ [][ /\ (scene' \ scene) \cup (coins' \ coins) \subseteq op'.born
         /\ op'.born \cap (scene \cup coins \cup FxObjs(fx)) = {}
         /\ op'.born \cap DOMAIN mesh = {} ]_vars

\* one frame has expired coins and collected the last coin of the pool,
\* which stays in the scene for its tween
C20_Witness ==
  /\ op.name = "frame" /\ op.gone # {} /\ op.got # {} /\ coins = {}
  /\ scene = op.got /\ scene = FxObjs(fx)

=============================================================================
